---- MODULE Spec2Model ----
(***************************************************************************)
(* State-machine model of ai_career_assistant/app.py: the relational store  *)
(* (User, Info, Push), the scheduled ingestion job fetch_and_summarize      *)
(* running on the scheduler's thread, and the three JSON routes of the     *)
(* Flask application (register, today, complete).                          *)
(*                                                                         *)
(* The job is cut at its commits: between two commits only the job's own   *)
(* session changes, so every state another connection can observe is a     *)
(* state of this model.  A route is one step: it reads and writes the      *)
(* store within one request and holds nothing across requests.  A row's id *)
(* is its position in its table.                                           *)
(***************************************************************************)
EXTENDS Integers, Sequences, FiniteSets, TLC

\* ------------------------------------------------------------------ bounds
MaxUsers    == 2   \* registrations explored
MaxEntries  == 4   \* entries one parsed feed can carry (more than the 3 taken)
MaxInfos    == 2   \* Info rows explored under Spec (feeds are drawn to fit)
MaxIngested == 3   \* Info rows explored under SpecIngest
MaxDay      == 2   \* calendar days explored

\* ------------------------------------------------------- program constants
NumFeeds     == 2  \* len(RSS_URLS), configured as documented: url1,url2
EntriesTaken == 3  \* the slice bound of feed.entries

\* ------------------------------------------------------------------ values
\* A text is a sequence of tokens; a token is a tuple.
None   == << <<"NULL">> >>   \* SQL NULL / Python None in a Text column
NoDate == 0                  \* a Push whose date default has not been evaluated
Delim  == <<"D">>            \* the literal delimiter that opens the suggestion
Space  == <<" ">>
Professions == {"dev", "pm"}

\* The answer of the completion endpoint to the prompt built from a profession
\* and an article (requests.post(...).json()['choices'][0]['message']['content']).
\* Answers to different prompts differ; the answer for one profession carries
\* the delimiter, twice and with blanks around the parts, and the answer for
\* the other carries none.
Completion(profession, title, content) ==
    IF profession = "dev"
    THEN <<Space, <<"sum", profession, title, content>>, Space, Delim,
           Space, <<"sug", profession, title, content>>, Delim, <<"more">>>>
    ELSE <<<<"sum", profession, title, content>>, Space>>

Min(a, b) == IF a <= b THEN a ELSE b

\* ------------------------------------------------ generate_summary_and_suggestion
\* str.split(sep): the parts of text between occurrences of the delimiter.
RECURSIVE split(_, _)
split(text, sep) ==
    IF \E i \in 1..Len(text) : text[i] = sep
    THEN LET i == CHOOSE k \in 1..Len(text) :
                      text[k] = sep /\ \A j \in 1..(k - 1) : text[j] # sep
         IN  <<SubSeq(text, 1, i - 1)>> \o split(SubSeq(text, i + 1, Len(text)), sep)
    ELSE <<text>>

\* str.strip(): drop leading and trailing whitespace.
RECURSIVE strip(_)
strip(text) ==
    IF text = <<>> THEN text
    ELSE IF Head(text) = Space THEN strip(Tail(text))
    ELSE IF text[Len(text)] = Space THEN strip(SubSeq(text, 1, Len(text) - 1))
    ELSE text

\* The (summary, suggestion) pair parsed out of the model's answer.
generate_summary_and_suggestion(profession, title, content) ==
    LET text  == Completion(profession, title, content)
        parts == split(text, Delim)
    IN  [summary    |-> strip(parts[1]),
         suggestion |-> IF Len(parts) > 1 THEN strip(parts[2]) ELSE <<>>]

\* ------------------------------------------------------------------- state
VARIABLES
    users,      \* table User:  sequence of [profession]
    infos,      \* table Info:  sequence of [title, content, summary, suggestion]
    pushes,     \* table Push (committed rows): sequence of
                \*   [user_id, info_id, suggestion, done, date]
    today,      \* datetime.date.today()
    job,        \* position and locals of fetch_and_summarize, with the history
                \* of the run in progress
    session,    \* Push objects added to the job's session and not yet committed
    resp        \* the response returned by the step just taken, NoResp when
                \* the step was not a request

vars == <<users, infos, pushes, today, job, session, resp>>
store == <<users, infos, pushes>>

NoResp == [op |-> "none"]

\* The job between two runs.  While a run is in progress:
\*   users    the list read by User.query.all() when the run started
\*   feed, entries, ei, ui, info
\*            the loop variables rss (as an index), feed.entries[:3], the
\*            indexes of entry and user, and the id of the Info row of entry
\*   base     history: the number of Info rows when the run started
\*   fetched  history: the number of entries of each feed parsed so far
\*   calls    history: the calls made to the completion endpoint, in order
\*   late     history: a user had registered since the start of the run when
\*            the Info row of the current entry was added
IdleJob ==
    [pc |-> "idle", users |-> <<>>, feed |-> 0, entries |-> <<>>, ei |-> 0,
     ui |-> 0, info |-> 0, base |-> 0, fetched |-> <<>>, calls |-> <<>>,
     late |-> FALSE]

Init ==
    /\ users = <<>>
    /\ infos = <<>>
    /\ pushes = <<>>
    /\ today = 1
    /\ job = IdleJob
    /\ session = <<>>
    /\ resp = NoResp

\* ------------------------------------------------------------ table helpers
\* User.query.all(): the ids of the User rows, in id order.
UserQueryAll(us) == [i \in 1..Len(us) |-> i]

\* feedparser.parse(rss).entries of feed f when it carries n entries: entry i
\* of feed f has title <<f, i>> and a summary of its own.
FeedEntries(f, n) ==
    [i \in 1..n |-> [title |-> <<f, i>>, summary |-> <<"text", f, i>>]]

\* Variant: the slice is dropped and every entry of the feed is taken.
TakeAllEntries(entries) == entries

\* feed.entries[:3]
TakeEntries(entries) == SubSeq(entries, 1, Min(EntriesTaken, Len(entries)))

\* Info(title=entry.title, url=..., source=..., content=entry.get('summary', '')):
\* summary and suggestion unset.  url and source are written and never read.
NewInfo(entry) ==
    [title |-> entry.title, content |-> entry.summary,
     summary |-> None, suggestion |-> None]

\* Variant: the Info row keeps the first user's values.
FillInfoOnce(info, r) ==
    IF info.summary = None
    THEN [info EXCEPT !.summary = r.summary, !.suggestion = r.suggestion]
    ELSE info

\* Variant: only the summary is written onto the Info row.
FillInfoSummaryOnly(info, r) == [info EXCEPT !.summary = r.summary]

\* info.summary = summary; info.suggestion = suggestion
FillInfo(info, r) ==
    [info EXCEPT !.summary = r.summary, !.suggestion = r.suggestion]

\* Variant: the two foreign keys are passed the wrong way round.
NewPushSwapped(user_id, info_id, suggestion) ==
    [user_id |-> info_id, info_id |-> user_id, suggestion |-> suggestion,
     done |-> FALSE, date |-> NoDate]

\* Push(user_id=user.id, info_id=info.id, suggestion=suggestion); done defaults
\* to False and date to the day of the INSERT.
NewPush(user_id, info_id, suggestion) ==
    [user_id |-> user_id, info_id |-> info_id, suggestion |-> suggestion,
     done |-> FALSE, date |-> NoDate]

\* Flushing the session sends the INSERTs: date's default is evaluated then.
Flush(sess, day) ==
    [i \in 1..Len(sess) |->
        IF sess[i].date = NoDate THEN [sess[i] EXCEPT !.date = day] ELSE sess[i]]

\* Variant: the inner loop queries the users again instead of using the list
\* read when the run started.
LoopUsersRequery(j, us) == UserQueryAll(us)

\* The users the inner loop of fetch_and_summarize iterates over.
LoopUsers(j, us) == j.users

\* Where the job stands after the entry at j.ei is finished.
AfterEntry(j) ==
    IF j.ei < Len(j.entries)
    THEN [j EXCEPT !.pc = "entries", !.ei = j.ei + 1]
    ELSE [j EXCEPT !.pc = "feeds", !.feed = j.feed + 1]

\* ------------------------------------------------------ fetch_and_summarize
\* The scheduler fires the job: users = User.query.all().  The query
\* autoflushes whatever an earlier, aborted run left in the thread's session.
StartRun ==
    /\ job.pc = "idle"
    /\ job' = [IdleJob EXCEPT !.pc = "feeds", !.users = UserQueryAll(users),
                              !.feed = 1, !.base = Len(infos)]
    /\ session' = Flush(session, today)
    /\ resp' = NoResp
    /\ UNCHANGED <<users, infos, pushes, today>>

\* feed = feedparser.parse(rss); the loop takes feed.entries[:3].  The feed
\* carries any number n of entries that keeps the Info table within limit.
ParseFeed(limit) ==
    /\ job.pc = "feeds"
    /\ job.feed <= NumFeeds
    /\ \E n \in 0..MaxEntries :
         LET taken == TakeEntries(FeedEntries(job.feed, n)) IN
         /\ Len(infos) + Min(EntriesTaken, n) <= limit
         /\ job' = IF taken = <<>>
                   THEN [job EXCEPT !.feed = job.feed + 1,
                                    !.fetched = Append(job.fetched, n)]
                   ELSE [job EXCEPT !.pc = "entries", !.entries = taken, !.ei = 1,
                                    !.fetched = Append(job.fetched, n)]
    /\ resp' = NoResp
    /\ UNCHANGED <<users, infos, pushes, today, session>>

\* info = Info(...); db.session.add(info); db.session.commit()
AddInfo ==
    /\ job.pc = "entries"
    /\ infos' = Append(infos, NewInfo(job.entries[job.ei]))
    /\ pushes' = pushes \o Flush(session, today)
    /\ session' = <<>>
    /\ job' = [job EXCEPT !.pc = "users", !.ui = 1, !.info = Len(infos) + 1,
                          !.late = Len(users) > Len(job.users)]
    /\ resp' = NoResp
    /\ UNCHANGED <<users, today>>

\* One iteration of `for user in users`: the call to the completion endpoint,
\* the write of its result onto the Info row, the commit (which also commits
\* the Push of the previous iteration), and the new Push added to the session.
ProcessUser ==
    /\ job.pc = "users"
    /\ job.ui <= Len(LoopUsers(job, users))
    /\ LET uid == LoopUsers(job, users)[job.ui]
           r   == generate_summary_and_suggestion(users[uid].profession,
                                                  infos[job.info].title,
                                                  infos[job.info].content)
       IN
         /\ infos' = [infos EXCEPT ![job.info] = FillInfo(infos[job.info], r)]
         /\ pushes' = pushes \o Flush(session, today)
         /\ session' = <<NewPush(uid, job.info, r.suggestion)>>
         /\ job' = [job EXCEPT
                      !.ui = job.ui + 1,
                      !.calls = Append(job.calls,
                                       [info |-> job.info, user |-> uid, result |-> r])]
    /\ resp' = NoResp
    /\ UNCHANGED <<users, today>>

\* The db.session.commit() after the inner loop, then the next entry or feed.
CommitEntry ==
    /\ job.pc = "users"
    /\ job.ui > Len(LoopUsers(job, users))
    /\ pushes' = pushes \o Flush(session, today)
    /\ session' = <<>>
    /\ job' = AfterEntry(job)
    /\ resp' = NoResp
    /\ UNCHANGED <<users, infos, today>>

\* The loop over RSS_URLS is exhausted: the function returns.
ReturnFromRun ==
    /\ job.pc = "feeds"
    /\ job.feed > NumFeeds
    /\ job' = IdleJob
    /\ resp' = NoResp
    /\ UNCHANGED <<users, infos, pushes, today, session>>

\* An unhandled fault aborts the run: a failure in feedparser.parse, a
\* malformed entry (entry.title), or a network failure or malformed answer in
\* generate_summary_and_suggestion.
\* Nothing rolls the session back: the pending Push is committed by a later run
\* when the scheduler reuses the thread (keep), and is never seen otherwise.
Fault ==
    /\ \/ job.pc = "feeds" /\ job.feed <= NumFeeds
       \/ job.pc = "entries"
       \/ job.pc = "users" /\ job.ui <= Len(LoopUsers(job, users))
    /\ \E keep \in BOOLEAN : session' = IF keep THEN session ELSE <<>>
    /\ job' = IdleJob
    /\ resp' = NoResp
    /\ UNCHANGED <<users, infos, pushes, today>>

\* Midnight passes.
Tick ==
    /\ today < MaxDay
    /\ today' = today + 1
    /\ resp' = NoResp
    /\ UNCHANGED <<users, infos, pushes, job, session>>

\* ---------------------------------------------------------------- API layer
\* The JSON bodies a client may post to /api/register.
RegisterBodies ==
    {[profession |-> p] : p \in Professions} \cup {[contact |-> "c"]}

\* The JSON bodies a client may post to /api/complete.
CompleteBodies == {[push_id |-> i] : i \in 0..(Len(pushes) + 1)} \cup {[id |-> 1]}

\* An unhandled exception in a view: Flask answers 500.
ServerFault(op) == [op |-> op, status |-> 500, body |-> "fault"]

\* User(profession=data['profession'], field=data.get('field'),
\* contact=data.get('contact')): field and contact are written and never read.
NewUser(data) == [profession |-> data.profession]

\* POST /api/register
register_user ==
    /\ \E data \in RegisterBodies :
         IF "profession" \in DOMAIN data
         THEN /\ Len(users) < MaxUsers
              /\ users' = Append(users, NewUser(data))
              /\ resp' = [op |-> "register", status |-> 200, body |-> "ok",
                          user_id |-> Len(users) + 1]
         ELSE \* data['profession'] raises KeyError
              /\ users' = users
              /\ resp' = ServerFault("register")
    /\ UNCHANGED <<infos, pushes, today, job, session>>

\* Variant: the filter leaves the date out.
TodayFilterAnyDate(ps, user_id, day) ==
    {p \in 1..Len(ps) : ps[p].user_id = user_id}

\* Variant: the filter leaves the user out.
TodayFilterAnyUser(ps, user_id, day) ==
    {p \in 1..Len(ps) : ps[p].date = day}

\* Push.query.filter_by(user_id=user_id, date=today): ids of the matching rows.
TodayFilter(ps, user_id, day) ==
    {p \in 1..Len(ps) : ps[p].user_id = user_id /\ ps[p].date = day}

\* Variant: the suggestion is read from the Info row.
TodayBodyFromInfo(info, push) ==
    [title |-> info.title, summary |-> info.summary,
     suggestion |-> info.suggestion, done |-> push.done]

\* jsonify({'title': info.title, 'summary': info.summary,
\*          'suggestion': push.suggestion, 'done': push.done})
TodayBody(info, push) ==
    [title |-> info.title, summary |-> info.summary,
     suggestion |-> push.suggestion, done |-> push.done]

\* GET /api/today/<user_id>.  .first() carries no ORDER BY: whichever matching
\* row the store yields is the one loaded.  The two reads (the Push, then its
\* Info) are taken at one instant.
get_today ==
    /\ \E user_id \in 1..(Len(users) + 1) :
         LET found == TodayFilter(pushes, user_id, today) IN
         IF found = {}
         THEN resp' = [op |-> "today", status |-> 404, body |-> "No content yet",
                       user_id |-> user_id]
         ELSE \E p \in found :
                resp' = [op |-> "today", status |-> 200,
                         body |-> TodayBody(infos[pushes[p].info_id], pushes[p]),
                         user_id |-> user_id, id |-> p]
    /\ UNCHANGED <<users, infos, pushes, today, job, session>>

\* Push.query.get(id): the row's id, or 0 for None.
PushQueryGet(ps, id) == IF id \in 1..Len(ps) THEN id ELSE 0

\* Variant: the flag is flipped instead of set.
MarkDoneToggle(push) == [push EXCEPT !.done = ~push.done]

\* push.done = True
MarkDone(push) == [push EXCEPT !.done = TRUE]

\* POST /api/complete
complete_task ==
    /\ \E data \in CompleteBodies :
         IF "push_id" \in DOMAIN data
         THEN LET p == PushQueryGet(pushes, data.push_id) IN
              IF p = 0
              THEN /\ resp' = [op |-> "complete", status |-> 404, body |-> "Not found",
                               push_id |-> data.push_id]
                   /\ pushes' = pushes
              ELSE /\ pushes' = [pushes EXCEPT ![p] = MarkDone(pushes[p])]
                   /\ resp' = [op |-> "complete", status |-> 200, body |-> "ok",
                               push_id |-> data.push_id, before |-> pushes[p].done]
         ELSE \* data['push_id'] raises KeyError
              /\ resp' = ServerFault("complete")
              /\ pushes' = pushes
    /\ UNCHANGED <<users, infos, today, job, session>>

\* ------------------------------------------------------------ specification
\* The job, the clock and the three routes, in any interleaving.
Next ==
    \/ StartRun
    \/ ParseFeed(MaxInfos)
    \/ AddInfo
    \/ ProcessUser
    \/ CommitEntry
    \/ ReturnFromRun
    \/ Fault
    \/ Tick
    \/ register_user
    \/ get_today
    \/ complete_task

Spec == Init /\ [][Next]_vars

\* The job with registrations only: the two other routes write nothing the
\* job reads and the job reads no date, which leaves room for feeds of more
\* than 3 entries.
NextIngest ==
    \/ StartRun
    \/ ParseFeed(MaxIngested)
    \/ AddInfo
    \/ ProcessUser
    \/ CommitEntry
    \/ ReturnFromRun
    \/ Fault
    \/ register_user

SpecIngest == Init /\ [][NextIngest]_vars

\* ================================================================== claims
\* The run in progress has left the loop over RSS_URLS: it returns without a
\* fault.
RunReturns == job.pc = "feeds" /\ job.feed > NumFeeds

\* The users that existed when the run in progress started.
UsersAtStart == 1..Len(job.users)

\* Ids of the Info rows the run in progress has created, of the committed Push
\* rows it has made, and of the Info rows whose entry it has finished.
RunInfos  == {i \in 1..Len(infos) : job.pc # "idle" /\ i > job.base}
RunPushes == {p \in 1..Len(pushes) : job.pc # "idle" /\ pushes[p].info_id > job.base}
DoneEntries == {i \in RunInfos : i < job.info \/ job.pc # "users"}

\* The sum of a sequence of numbers.
RECURSIVE SumSeq(_)
SumSeq(s) == IF s = <<>> THEN 0 ELSE Head(s) + SumSeq(Tail(s))

\* The calls the run in progress has made to the completion endpoint for Info
\* row i, in order.
CallsFor(i) == LET ForI(c) == c.info = i IN SelectSeq(job.calls, ForI)

Filled(i) == infos[i].summary # None /\ infos[i].suggestion # None

\* ---- C1
\* C1: a run that returns without a fault has parsed every configured feed and
\* has created min(3, n_f) Info rows for a feed of n_f entries, and one Push row
\* for every pair of such an Info row and a user that existed when it started.
C1_RunCreatesRows ==
    RunReturns =>
        LET taken == SumSeq([k \in 1..Len(job.fetched) |-> Min(3, job.fetched[k])])
        IN  /\ Len(job.fetched) = NumFeeds
            /\ Cardinality(RunInfos) = taken
            /\ Cardinality(RunPushes) = taken * Cardinality(UsersAtStart)
            /\ \A i \in RunInfos : \A u \in UsersAtStart :
                 Cardinality({p \in RunPushes :
                                pushes[p].info_id = i /\ pushes[p].user_id = u}) = 1

\* A run over a feed of more than 3 entries with 2 users returns: 3 Info rows
\* and 6 Push rows.
C1_Witness ==
    /\ RunReturns
    /\ Cardinality(UsersAtStart) = 2
    /\ \E k \in 1..Len(job.fetched) : job.fetched[k] > 3
    /\ Cardinality(RunInfos) = 3
    /\ Cardinality(RunPushes) = 6

\* ---- C7
\* C7: every Push of the run in progress, committed or still in the session, is
\* for a user that existed when the run started, and every entry the run has
\* finished has a committed Push for each of those users.
C7_UsersAtStart ==
    LET all == pushes \o session IN
    job.pc # "idle" =>
        /\ \A k \in 1..Len(all) :
             all[k].info_id > job.base => all[k].user_id \in UsersAtStart
        /\ \A i \in DoneEntries : \A u \in UsersAtStart :
             \E p \in RunPushes : pushes[p].info_id = i /\ pushes[p].user_id = u

\* The run has finished, for the users it started with, an entry whose Info row
\* was added after a user had registered during the run.
C7_Witness ==
    /\ job.pc \in {"entries", "feeds"}
    /\ job.info \in DoneEntries
    /\ job.late
    /\ Len(users) > Len(job.users)
    /\ Len(job.users) >= 1

\* ---- C8
\* C8: once an entry is finished for two or more users, its Info row holds the
\* summary and suggestion returned for the last user, and the Push rows of the
\* entry are exactly one per call, each with the suggestion returned for its
\* own user.
C8_LastUserOnInfo ==
    \A i \in DoneEntries :
        LET cs == CallsFor(i) IN
        Len(cs) >= 2 =>
            /\ infos[i].summary = cs[Len(cs)].result.summary
            /\ infos[i].suggestion = cs[Len(cs)].result.suggestion
            /\ \A k \in 1..Len(cs) :
                 \E p \in 1..Len(pushes) :
                    /\ pushes[p].info_id = i
                    /\ pushes[p].user_id = cs[k].user
                    /\ pushes[p].suggestion = cs[k].result.suggestion
            /\ \A p \in 1..Len(pushes) :
                 pushes[p].info_id = i =>
                    \E k \in 1..Len(cs) :
                       /\ cs[k].user = pushes[p].user_id
                       /\ cs[k].result.suggestion = pushes[p].suggestion

\* A finished entry with a Push whose suggestion is not the one on its Info.
C8_Witness ==
    \E i \in DoneEntries : \E p \in 1..Len(pushes) :
        /\ Len(CallsFor(i)) >= 2
        /\ pushes[p].info_id = i
        /\ pushes[p].suggestion # infos[i].suggestion

C2_CompleteSticks ==
    [][ /\ (resp'.op = "complete" /\ resp'.status # 500
              /\ resp'.push_id \in 1..Len(pushes))
           => /\ resp'.status = 200
              /\ resp'.body = "ok"
              /\ pushes'[resp'.push_id].done
        /\ \A p \in 1..Len(pushes) :
             pushes[p].done => (Len(pushes') >= p /\ pushes'[p].done) ]_vars

\* The second Complete of a Push: it was done before and is done after.
C2_Witness ==
    /\ resp.op = "complete"
    /\ resp.status = 200
    /\ resp.before
    /\ pushes[resp.push_id].done

\* ---- C3
\* C3: Today answers 200 for a user who has a Push dated today, and the answer
\* is made of one Push of that user dated today: title and summary of the Info
\* it references, suggestion and done of the Push.
C3_TodayFields ==
    resp.op = "today" =>
        LET mine == {p \in 1..Len(pushes) :
                        pushes[p].user_id = resp.user_id /\ pushes[p].date = today}
        IN  mine # {} =>
              /\ resp.status = 200
              /\ \E p \in mine :
                    resp.body = [title      |-> infos[pushes[p].info_id].title,
                                 summary    |-> infos[pushes[p].info_id].summary,
                                 suggestion |-> pushes[p].suggestion,
                                 done       |-> pushes[p].done]

\* Today answered with a done Push whose suggestion differs from the one on its
\* Info, while the user also has a Push of another date.
C3_Witness ==
    /\ resp.op = "today"
    /\ resp.status = 200
    /\ resp.body.done
    /\ resp.body.suggestion # infos[pushes[resp.id].info_id].suggestion
    /\ \E q \in 1..Len(pushes) :
          pushes[q].user_id = resp.user_id /\ pushes[q].date # today

\* ---- C4
\* C4: Today for a user without a Push dated today answers 404 'No content
\* yet', Complete with an id that names no Push answers 404 'Not found', and a
\* step that answers 404 leaves the three tables as they were.
C4_NotFound ==
    [][ /\ (resp'.op = "today"
              /\ ~\E p \in 1..Len(pushes) :
                    pushes[p].user_id = resp'.user_id /\ pushes[p].date = today)
           => resp'.status = 404 /\ resp'.body = "No content yet"
        /\ (resp'.op = "complete" /\ resp'.status # 500
              /\ resp'.push_id \notin 1..Len(pushes))
           => resp'.status = 404 /\ resp'.body = "Not found"
        /\ (resp'.op \in {"today", "complete"} /\ resp'.status = 404)
           => store' = store ]_vars

\* Today answered 404 for a user who has a done Push, of another date.
C4_Witness ==
    /\ resp.op = "today"
    /\ resp.status = 404
    /\ \E p \in 1..Len(pushes) :
          pushes[p].user_id = resp.user_id /\ pushes[p].date # today /\ pushes[p].done

\* ---- C5
\* C5: a Register request ends with the user created or with a client error
\* (4xx), never with a fault, and a request that fails creates no User row.
C5_RegisterNeverFaults ==
    [][ resp'.op = "register" =>
          \/ resp'.status = 200
          \/ resp'.status \in 400..499 /\ users' = users ]_vars

\* ---- C6
\* C6: every Push, committed or still in the session, references a User row and
\* an Info row that exist, and no step removes a row of either table.
C6_ReferencesExist ==
    /\ [](\A k \in 1..Len(pushes \o session) :
            /\ (pushes \o session)[k].user_id \in 1..Len(users)
            /\ (pushes \o session)[k].info_id \in 1..Len(infos))
    /\ [][ /\ Len(users') >= Len(users)
           /\ Len(infos') >= Len(infos)
           /\ SubSeq(users', 1, Len(users)) = users ]_vars

\* Pushes of two users after a registration, a Complete and a new run with a
\* Push still uncommitted.
C6_Witness ==
    /\ Len(users) >= 2
    /\ session # <<>>
    /\ \E p, q \in 1..Len(pushes) :
          pushes[p].user_id # pushes[q].user_id /\ pushes[p].done

\* ---- C9
\* C9: when a user has two or more Push rows dated today, Today answers with
\* exactly one of them.
C9_OneOfDuplicates ==
    (resp.op = "today" /\ resp.status = 200) =>
        LET mine == {p \in 1..Len(pushes) :
                        pushes[p].user_id = resp.user_id /\ pushes[p].date = today}
        IN  Cardinality(mine) >= 2 =>
              /\ resp.id \in mine
              /\ resp.body.suggestion = pushes[resp.id].suggestion
              /\ resp.body.done = pushes[resp.id].done
              /\ resp.body.title = infos[pushes[resp.id].info_id].title

\* An earlier run and the run in progress have each given a user a Push row of
\* this day, and Today answered with one of the two.
C9_Witness ==
    /\ resp.op = "today"
    /\ resp.status = 200
    /\ job.pc # "idle"
    /\ \E p, q \in 1..Len(pushes) :
          /\ pushes[p].info_id <= job.base /\ pushes[q].info_id > job.base
          /\ pushes[p].user_id = resp.user_id /\ pushes[q].user_id = resp.user_id
          /\ pushes[p].date = today /\ pushes[q].date = today
          /\ resp.id \in {p, q}

====
